---------------------------- MODULE Spec2Model ----------------------------
(***************************************************************************)
(* Model of the three Streamlit map scripts of the repository:             *)
(*   app.py            - stations + river network                          *)
(*   app_wastewater.py - stations + waste-water sites + river network      *)
(*   app_satelite.py   - distinct stations over NASA night-light tiles     *)
(* A Streamlit script is re-executed from top to bottom on every widget    *)
(* interaction; one action of the model is one widget interaction followed *)
(* by the complete re-run of the script.                                   *)
(*                                                                         *)
(* Coordinates are floats compared by exact equality and ordered by <; the *)
(* model uses small integers for them and the sentinel NaN for a missing   *)
(* cell.  Column names are strings; the padded spellings that str.strip()  *)
(* repairs are listed in Strip.                                            *)
(***************************************************************************)
EXTENDS Integers, Sequences, FiniteSets, TLC

VARIABLES
    script,             \* which of the three scripts the session serves
    fs,                 \* the files on disk: path -> file
    first_na,           \* what GroupBy.first yields for an all-null group in this pandas build
    slider_raises,      \* whether this streamlit build rejects min_value > max_value
    show_train, show_val, show_wastewater, show_rivers,   \* layer checkboxes
    radius_km,          \* app_wastewater.py selectbox
    nasa_version,       \* app_satelite.py radio
    show_1km, show_3km, show_5km, show_10km,              \* app_satelite.py checkboxes
    max_points,         \* app_satelite.py slider value
    m,                  \* the folium map: sequence of elements added to it
    outcome,            \* how the last script run ended
    errors,             \* st.error messages of the last run
    river_color_map,    \* MAIN_RIV -> hex colour (function; empty when not built)
    df,                 \* app_satelite.py: the distinct-location frame
    display_df          \* app_satelite.py: the frame actually drawn

vars == <<script, fs, first_na, slider_raises,
          show_train, show_val, show_wastewater, show_rivers, radius_km,
          nasa_version, show_1km, show_3km, show_5km, show_10km, max_points,
          m, outcome, errors, river_color_map, df, display_df>>

(***************************************************************************)
(* Bounds of the model                                                     *)
(***************************************************************************)
MaxCoord == 1          \* coordinates range over 0..MaxCoord
MaxRows == 3           \* longest table drawn for the aggregation checks
MaxRivers == 22        \* most distinct river identifiers in a geometry file
MaxFeatures == 24      \* most features in a geometry file
MaxStations == 12      \* most rows of a station file in the sampling checks
MaxSites == 2          \* longest waste-water table drawn for the label checks
MaxTagged == 2         \* longest station table drawn for the multi-dataset checks

(***************************************************************************)
(* Values                                                                  *)
(***************************************************************************)
NaN == -1              \* a missing numeric cell
NullDesc == "nan"      \* a missing Description cell (NaN)
NoneName == "None"     \* Python None

Coords == 0..MaxCoord

Descs == {NullDesc, "Dam A", "Dam B"}

TRAINING_SET == "TRAINING_SET.csv"
VALIDATION_SET == "VALIDATION_SET.csv"
WASTE_WATER == "Waste_Water.xlsx"
WASTE_WATER_SHEET == "Waste_Water.xlsx - Sheet1.csv"
RIVERS == "sa_rivers_final.geojson"

Paths == {TRAINING_SET, VALIDATION_SET, WASTE_WATER, WASTE_WATER_SHEET, RIVERS}

\* pd.DataFrame(): no columns, no rows
EmptyFrame == [columns |-> {}, rows |-> <<>>]

\* df.empty: a frame with no rows or no columns
IsEmpty(frame) == frame.columns = {} \/ Len(frame.rows) = 0

\* str.strip() on the column spellings of the model
Strip(c) ==
    CASE c = " Latitude"  -> "Latitude"
      [] c = "Longitude " -> "Longitude"
      [] OTHER            -> c

HasCoords(columns) == {"Latitude", "Longitude"} \subseteq columns

(***************************************************************************)
(* Sequence helpers                                                        *)
(***************************************************************************)
\* df.dropna(subset=['Latitude', 'Longitude'])
NotNullCoords(r) == r.Latitude # NaN /\ r.Longitude # NaN

dropna(frame) == [frame EXCEPT !.rows = SelectSeq(frame.rows, NotNullCoords)]

KeyOf(r) == <<r.Latitude, r.Longitude>>

\* lexicographic order of (Latitude, Longitude) keys
KeyLess(a, b) == a[1] < b[1] \/ (a[1] = b[1] /\ a[2] < b[2])

MinKey(S) == CHOOSE a \in S : \A b \in S : a = b \/ KeyLess(a, b)

RECURSIVE SortKeys(_)
SortKeys(S) ==
    IF S = {} THEN <<>>
    ELSE <<MinKey(S)>> \o SortKeys(S \ {MinKey(S)})

RECURSIVE SumSeq(_)
SumSeq(s) == IF s = <<>> THEN 0 ELSE Head(s) + SumSeq(Tail(s))


(***************************************************************************)
(* Files                                                                   *)
(* A file is missing, unreadable (exists but the reader raises) or ok; an  *)
(* ok tabular file has a set of column names and a sequence of rows; an ok *)
(* geometry file has one row per feature, carrying MAIN_RIV and ORD_STRA.  *)
(***************************************************************************)
Missing == [state |-> "missing", columns |-> {}, rows |-> <<>>]

Unreadable == [state |-> "unreadable", columns |-> {}, rows |-> <<>>]

OkFile(columns, rows) == [state |-> "ok", columns |-> columns, rows |-> rows]

(***************************************************************************)
(* app.py                                                                  *)
(***************************************************************************)
\* app.py:14-21  load_data: only FileNotFoundError is caught; any other
\* reader error, and the KeyError of dropna on absent columns, propagates.
app_load_data(file_path) ==
    LET f == fs[file_path] IN
    IF f.state = "missing" THEN [raised |-> FALSE, df |-> EmptyFrame]
    ELSE IF f.state = "unreadable" THEN [raised |-> TRUE, df |-> EmptyFrame]
    ELSE IF ~HasCoords(f.columns) THEN [raised |-> TRUE, df |-> EmptyFrame]
    ELSE [raised |-> FALSE, df |-> dropna([columns |-> f.columns, rows |-> f.rows])]

\* app.py:23-31  load_river_data: every failure becomes None plus st.error
app_load_river_data(file_path) ==
    LET f == fs[file_path] IN
    IF f.state = "ok"
    THEN [none |-> FALSE, gdf |-> f.rows, errors |-> <<>>]
    ELSE [none |-> TRUE, gdf |-> <<>>, errors |-> <<"Error loading river file">>]

\* Series.unique(): the distinct values in order of first appearance
RECURSIVE unique(_)
unique(s) ==
    IF s = <<>> THEN <<>>
    ELSE LET init == unique(SubSeq(s, 1, Len(s) - 1))
             last == s[Len(s)]
         IN IF \E i \in DOMAIN init : init[i] = last THEN init ELSE Append(init, last)

\* matplotlib tab20, as mcolors.to_hex renders it
tab20 == <<"#1f77b4", "#aec7e8", "#ff7f0e", "#ffbb78", "#2ca02c",
           "#98df8a", "#d62728", "#ff9896", "#9467bd", "#c5b0d5",
           "#8c564b", "#c49c94", "#e377c2", "#f7b6d2", "#7f7f7f",
           "#c7c7c7", "#bcbd22", "#dbdb8d", "#17becf", "#9edae5">>

PaletteSize == 20

\* a plausible slip: cycling over one colour too few
palette_index_short(i) == i % (PaletteSize - 1)

\* app.py:70, app_wastewater.py:101  colormap(i % 20)
palette_index(i) == i % PaletteSize

\* app.py:62-71, app_wastewater.py:97-102  river_color_map construction;
\* enumerate() counts from 0, sequences of the model from 1
build_river_color_map(gdf) ==
    LET unique_main_rivers == unique([j \in DOMAIN gdf |-> gdf[j].MAIN_RIV])
    IN [riv_id \in {unique_main_rivers[i] : i \in DOMAIN unique_main_rivers} |->
          LET i == CHOOSE i \in DOMAIN unique_main_rivers : unique_main_rivers[i] = riv_id
          IN tab20[palette_index(i - 1) + 1]]

NoColorMap == [riv_id \in {} |-> ""]

\* dict.get(key, default) of the style_function
color_of(color_map, riv_id, default) ==
    IF riv_id \in DOMAIN color_map THEN color_map[riv_id] ELSE default

\* app.py:74-86, app_wastewater.py:104-116  the GeoJson river layer with the
\* style every feature receives
river_layer(gdf, color_map, default) ==
    [kind |-> "GeoJson", name |-> "River Network",
     colors |-> [j \in DOMAIN gdf |-> color_of(color_map, gdf[j].MAIN_RIV, default)]]

\* number of rows of a group, as a wrong aggregate would give it (nunique of the key)
group_size_nunique(rows, key) == IF \E j \in DOMAIN rows : KeyOf(rows[j]) = key THEN 1 ELSE 0

\* GroupBy.size(): rows of the group
group_size(rows, key) == Cardinality({j \in DOMAIN rows : KeyOf(rows[j]) = key})

\* groupby(..., sort=False): group keys in order of first appearance
group_keys_first_seen(rows) == unique([j \in DOMAIN rows |-> KeyOf(rows[j])])

\* df.groupby(['Latitude', 'Longitude']): sort=True and dropna=True are the
\* defaults, so the group keys come out in ascending key order and rows with
\* a missing key are left out
group_keys(rows) == SortKeys({KeyOf(rows[j]) : j \in DOMAIN rows})

groupby_rows(frame) == SelectSeq(frame.rows, NotNullCoords)

\* app.py:93  df.groupby([...]).size().reset_index(name='Count')
distinct_size(frame) ==
    LET rows == groupby_rows(frame)
        keys == group_keys(rows)
    IN [i \in DOMAIN keys |->
          [Latitude |-> keys[i][1], Longitude |-> keys[i][2],
           Count |-> group_size(rows, keys[i])]]

\* app.py:89-103  add_markers: the markers appended to the map
add_markers(frame, color, fill_color, label) ==
    IF IsEmpty(frame) THEN <<>>
    ELSE LET distinct_df == distinct_size(frame)
         IN [i \in DOMAIN distinct_df |->
               [kind |-> "CircleMarker",
                location |-> <<distinct_df[i].Latitude, distinct_df[i].Longitude>>,
                color |-> color, fill_color |-> fill_color,
                group |-> label, name |-> label,
                count |-> distinct_df[i].Count]]

\* the value of one script run
Run(m_, outcome_, errors_, color_map_, df_, display_df_) ==
    [m |-> m_, outcome |-> outcome_, errors |-> errors_,
     river_color_map |-> color_map_, df |-> df_, display_df |-> display_df_]

Raised(errors_) == Run(<<>>, "exception", errors_, NoColorMap, <<>>, <<>>)

\* app.py:33-113  one execution of the script
app_script(s_train, s_val, s_rivers) ==
    LET train == app_load_data(TRAINING_SET)
        val == app_load_data(VALIDATION_SET)
        rivers == app_load_river_data(RIVERS)
        \* line 47: df[['Latitude', 'Longitude']] raises KeyError on a frame
        \* without those columns, which pd.DataFrame() is
        concat_raises == ~HasCoords(train.df.columns) \/ ~HasCoords(val.df.columns)
        draw_rivers == s_rivers /\ ~rivers.none
        color_map == IF draw_rivers THEN build_river_color_map(rivers.gdf) ELSE NoColorMap
    IN IF train.raised THEN Raised(<<>>)
       ELSE IF val.raised THEN Raised(<<>>)
       ELSE IF concat_raises THEN Raised(rivers.errors)
       ELSE Run((IF draw_rivers THEN <<river_layer(rivers.gdf, color_map, "#87CEFA")>> ELSE <<>>)
                  \o (IF s_train THEN add_markers(train.df, "dodgerblue", "cyan", "Training") ELSE <<>>)
                  \o (IF s_val THEN add_markers(val.df, "darkred", "red", "Validation") ELSE <<>>),
                "rendered", rivers.errors, color_map, <<>>, <<>>)

(***************************************************************************)
(* app_wastewater.py                                                       *)
(***************************************************************************)
\* os.path.exists
exists(file_path) == file_path \in Paths /\ fs[file_path].state # "missing"

\* file_path + " - Sheet1.csv"
sheet_path(file_path) ==
    IF file_path = WASTE_WATER THEN WASTE_WATER_SHEET ELSE "no such file"

\* app_wastewater.py:15-39  load_data: the path repair, the reader, the
\* stripped header, the column test; every failure yields pd.DataFrame()
ww_load_data(file_path) ==
    LET path == IF ~exists(file_path) /\ exists(sheet_path(file_path))
                THEN sheet_path(file_path) ELSE file_path
    IN IF ~exists(path) THEN [df |-> EmptyFrame, errors |-> <<>>]
       ELSE IF fs[path].state = "unreadable"
            THEN [df |-> EmptyFrame, errors |-> <<"Error loading">>]
       ELSE LET columns == {Strip(c) : c \in fs[path].columns}
            IN IF HasCoords(columns)
               THEN [df |-> dropna([columns |-> columns, rows |-> fs[path].rows]),
                     errors |-> <<>>]
               ELSE [df |-> EmptyFrame, errors |-> <<>>]

\* app_wastewater.py:41-48  load_river_data: every failure becomes None, silently
ww_load_river_data(file_path) ==
    LET f == fs[file_path] IN
    IF f.state = "ok" THEN [none |-> FALSE, gdf |-> f.rows]
    ELSE [none |-> TRUE, gdf |-> <<>>]

NoDescCol == "<no desc_col>"

\* the rows of one group, in original row order
group_rows(rows, key) == SelectSeq(rows, LAMBDA r : KeyOf(r) = key)

\* the description of the first row of the group, null or not
first_row_value(group, na) == group[1].Description

\* GroupBy.first(): the first non-null value of the group; the build's
\* missing value when every value of the group is null
first_value(group, na) ==
    LET present == SelectSeq(group, LAMBDA r : r.Description # NullDesc)
    IN IF present = <<>> THEN na ELSE present[1].Description

\* app_wastewater.py:126-129  groupby().agg(Count=size, Name=first | None)
distinct_agg(frame, desc_col) ==
    LET rows == groupby_rows(frame)
        keys == group_keys(rows)
        described == desc_col # NoDescCol /\ desc_col \in frame.columns
    IN [i \in DOMAIN keys |->
          [Latitude |-> keys[i][1], Longitude |-> keys[i][2],
           Count |-> group_size(rows, keys[i]),
           Name |-> IF described THEN first_value(group_rows(rows, keys[i]), first_na)
                    ELSE NoneName]]

\* Python truth value of a Name cell: None is false, NaN and text are true
truthy(name) == name # NoneName

\* app_wastewater.py:131-167  the marker of one distinct location, followed
\* by its radius circle when asked for
ww_elements(row, color, fill_color, group_label, marker_size, with_radius, radius) ==
    LET site_name == IF truthy(row.Name) THEN row.Name ELSE group_label
    IN <<[kind |-> "CircleMarker",
          location |-> <<row.Latitude, row.Longitude>>,
          color |-> color, fill_color |-> fill_color,
          size |-> marker_size,
          group |-> group_label, name |-> site_name, label |-> row.Name,
          count |-> row.Count]>>
       \o (IF with_radius /\ radius > 0
           THEN <<[kind |-> "Circle", location |-> <<row.Latitude, row.Longitude>>,
                   radius |-> radius * 1000, color |-> "black"]>>
           ELSE <<>>)

RECURSIVE Flatten(_)
Flatten(ss) == IF ss = <<>> THEN <<>> ELSE Head(ss) \o Flatten(Tail(ss))

\* app_wastewater.py:119-167  add_markers_and_radius
add_markers_and_radius(frame, color, fill_color, group_label, desc_col, marker_size, with_radius, radius) ==
    IF IsEmpty(frame) THEN <<>>
    ELSE LET distinct_df == distinct_agg(frame, desc_col)
         IN Flatten([i \in DOMAIN distinct_df |->
                       ww_elements(distinct_df[i], color, fill_color, group_label,
                                   marker_size, with_radius, radius)])

\* app_wastewater.py:50-185  one execution of the script
ww_script(s_train, s_val, s_wastewater, s_rivers, radius) ==
    LET train == ww_load_data(TRAINING_SET)
        val == ww_load_data(VALIDATION_SET)
        wastewater == ww_load_data(WASTE_WATER)
        rivers == ww_load_river_data(RIVERS)
        draw_rivers == s_rivers /\ ~rivers.none
        color_map == IF draw_rivers THEN build_river_color_map(rivers.gdf) ELSE NoColorMap
    IN Run((IF draw_rivers THEN <<river_layer(rivers.gdf, color_map, "#00FFFF")>> ELSE <<>>)
             \o (IF s_train
                 THEN add_markers_and_radius(train.df, "dodgerblue", "cyan", "Training Set",
                                             NoDescCol, "5", TRUE, radius)
                 ELSE <<>>)
             \o (IF s_val
                 THEN add_markers_and_radius(val.df, "darkred", "red", "Validation Set",
                                             NoDescCol, "5", TRUE, radius)
                 ELSE <<>>)
             \o (IF s_wastewater
                 THEN add_markers_and_radius(wastewater.df, "lime", "#39FF14",
                                             "Waste Water / Dam", "Description", "1.25", FALSE, radius)
                 ELSE <<>>),
           "rendered", train.errors \o val.errors \o wastewater.errors,
           color_map, <<>>, <<>>)

(***************************************************************************)
(* app_satelite.py                                                         *)
(***************************************************************************)
\* app_satelite.py:32-42  one pass of the loop over files: a reader error is
\* swallowed, a table without both coordinate columns is skipped, the rows
\* of any other table are kept (nulls included) and tagged with the source
tagged_rows(source, file_path) ==
    LET f == fs[file_path] IN
    IF f.state # "ok" THEN <<>>
    ELSE IF ~HasCoords(f.columns) THEN <<>>
    ELSE [j \in DOMAIN f.rows |->
            [Latitude |-> f.rows[j].Latitude, Longitude |-> f.rows[j].Longitude,
             Source |-> source]]

\* drop_duplicates(keep='last')
RECURSIVE drop_duplicates_last(_)
drop_duplicates_last(rows) ==
    IF rows = <<>> THEN <<>>
    ELSE LET rest == Tail(rows)
         IN IF \E j \in DOMAIN rest : KeyOf(rest[j]) = KeyOf(Head(rows))
            THEN drop_duplicates_last(rest)
            ELSE <<Head(rows)>> \o drop_duplicates_last(rest)

\* app_satelite.py:46  drop_duplicates(subset=['Latitude', 'Longitude']):
\* keep='first' is the default
RECURSIVE drop_duplicates(_)
drop_duplicates(rows) ==
    IF rows = <<>> THEN <<>>
    ELSE LET init == drop_duplicates(SubSeq(rows, 1, Len(rows) - 1))
             last == rows[Len(rows)]
         IN IF \E j \in DOMAIN init : KeyOf(init[j]) = KeyOf(last)
            THEN init ELSE Append(init, last)

\* app_satelite.py:24-48  load_unique_data; the dict keeps insertion order
load_unique_data ==
    drop_duplicates(tagged_rows("Training Set", TRAINING_SET)
                    \o tagged_rows("Validation Set", VALIDATION_SET))

\* The pseudorandom generator behind random_state: a 16-bit linear
\* congruential generator stands for numpy's Mersenne Twister
rng_next(state) == (75 * state + 74) % 65537

\* RandomState.permutation(n): Fisher-Yates from the last position down
RECURSIVE shuffle(_, _, _)
shuffle(x, i, state) ==
    IF i <= 1 THEN x
    ELSE LET j == (state % i) + 1
         IN shuffle([x EXCEPT ![i] = x[j], ![j] = x[i]], i - 1, rng_next(state))

permutation(n, seed) == shuffle([i \in 1..n |-> i], n, rng_next(seed))

\* DataFrame.sample(n, random_state): the rows at the first n positions of
\* a seeded permutation (choice without replacement)
sample(rows, n, random_state) ==
    LET locs == permutation(Len(rows), random_state)
    IN [i \in 1..n |-> rows[locs[i]]]

Min(a, b) == IF a < b THEN a ELSE b

SliderMin == 10

SliderStep == 10

SliderDefault == 100

\* st.slider(min_value=10, max_value=total_unique, ...): the bounds the
\* widget works with; a build that does not reject min_value > max_value
\* lowers the minimum to the maximum
slider_min(total_unique) == Min(SliderMin, total_unique)

\* the initial value of the slider
slider_value(total_unique) == Min(SliderDefault, total_unique)

\* the values the user can set the slider to: the step grid from the
\* minimum, the right end of the track, and the initial value
slider_values(total_unique) ==
    {v \in slider_min(total_unique)..total_unique :
        \/ (v - slider_min(total_unique)) % SliderStep = 0
        \/ v = total_unique
        \/ v = slider_value(total_unique)}

RandomSeed == 42

NasaVersions == {"2012 City Lights (Brighter)", "2016 Black Marble (Refined)"}

\* app_satelite.py:109  "2012" in nasa_version
is_2012(version) == version = "2012 City Lights (Brighter)"

\* a seed that follows an unrelated control
random_state_by_version(version) == IF is_2012(version) THEN RandomSeed + 1 ELSE RandomSeed

\* app_satelite.py:97  random_state=42
random_state(version) == RandomSeed

\* sampling whenever the cap is reached, not only when it is exceeded
needs_sampling_at_cap(total, cap) == total >= cap

\* app_satelite.py:96  len(df) > max_points
needs_sampling(total, cap) == total > cap

\* app_satelite.py:96-100  BoundedSampler
bounded_sample(rows, cap, version) ==
    IF needs_sampling(Len(rows), cap) THEN sample(rows, cap, random_state(version)) ELSE rows

\* app_satelite.py:128-164  the marker of one row and its radius circles
sat_elements(row, s_1km, s_3km, s_5km, s_10km) ==
    LET radii == (IF s_1km THEN <<1>> ELSE <<>>) \o (IF s_3km THEN <<3>> ELSE <<>>)
                 \o (IF s_5km THEN <<5>> ELSE <<>>) \o (IF s_10km THEN <<10>> ELSE <<>>)
        marker_color == IF row.Source = "Training Set" THEN "blue" ELSE "red"
    IN <<[kind |-> "CircleMarker", location |-> <<row.Latitude, row.Longitude>>,
          color |-> marker_color, source |-> row.Source]>>
       \o [i \in DOMAIN radii |->
             [kind |-> "Circle", location |-> <<row.Latitude, row.Longitude>>,
              radius |-> radii[i] * 1000, color |-> "cyan"]]

\* app_satelite.py:50-169  one execution of the script
sat_script(version, s_1km, s_3km, s_5km, s_10km, points) ==
    LET unique_df == load_unique_data
        total_unique == Len(unique_df)
    IN IF unique_df = <<>>
       THEN Run(<<>>, "stopped", <<"Error: CSV files not found.">>, NoColorMap, <<>>, <<>>)
       ELSE IF SliderMin > total_unique /\ slider_raises
       THEN Run(<<>>, "exception", <<>>, NoColorMap, unique_df, <<>>)
       ELSE LET shown == bounded_sample(unique_df, points, version)
            IN Run(<<[kind |-> "TileLayer", name |-> version,
                          attr |-> IF is_2012(version) THEN "NASA GIBS 2012 City Lights"
                                   ELSE "NASA GIBS 2016 Black Marble"]>>
                     \o Flatten([i \in DOMAIN shown |->
                                   sat_elements(shown[i], s_1km, s_3km, s_5km, s_10km)]),
                   "rendered", <<>>, NoColorMap, unique_df, shown)

(***************************************************************************)
(* The input files the checks range over                                   *)
(***************************************************************************)
StationColumns == {"Latitude", "Longitude"}

SiteColumns == {"Latitude", "Longitude", "Description"}

Row(lat, lon, desc) == [Latitude |-> lat, Longitude |-> lon, Description |-> desc]

RECURSIVE SeqsUpTo(_, _)
SeqsUpTo(S, n) ==
    IF n = 0 THEN {<<>>}
    ELSE LET shorter == SeqsUpTo(S, n - 1)
         IN shorter \cup {Append(t, x) : t \in shorter, x \in S}

\* station rows: every coordinate pair, and a row with a missing latitude
StationRows == {Row(lat, lon, NullDesc) : lat \in Coords, lon \in Coords}
               \cup {Row(NaN, 0, NullDesc)}

\* waste-water rows: two sites on one meridian, described or not
SiteRows == {Row(lat, 0, desc) : lat \in {0, 1}, desc \in Descs}

\* a small valid station table: two locations, one of them sampled twice,
\* first seen in descending coordinate order
SmallRows == <<Row(1, 0, NullDesc), Row(0, 1, NullDesc), Row(1, 0, NullDesc)>>

SmallTable == OkFile(StationColumns, SmallRows)

\* a waste-water table whose keys interleave and whose first row of a key
\* has no description
SmallSites == OkFile(SiteColumns,
                     <<Row(1, 0, NullDesc), Row(0, 0, "Dam B"), Row(1, 0, "Dam A"),
                       Row(0, 0, "Dam A"), Row(1, 1, NullDesc)>>)

\* the ways a tabular file can fail or deviate
FailingTables ==
    {Missing, Unreadable,
     OkFile({"Lat", "Lon"}, SmallRows),                     \* no coordinate columns
     OkFile({"Latitude"}, SmallRows),                        \* one of the two
     OkFile({" Latitude", "Longitude "}, SmallRows),         \* padded header
     OkFile(StationColumns, <<Row(NaN, 0, NullDesc)>>),      \* no row with coordinates
     OkFile(StationColumns, <<>>)}                           \* header only

Feature(riv_id) == [MAIN_RIV |-> riv_id, ORD_STRA |-> 1]

\* n features whose identifiers walk 1..k with stride s
RiverFeatures(n, s, k) == [j \in 1..n |-> Feature((((j - 1) * s) % k) + 1)]

SmallRivers == OkFile({"MAIN_RIV", "ORD_STRA"}, RiverFeatures(3, 1, 2))

RiverFiles ==
    {OkFile({"MAIN_RIV", "ORD_STRA"}, RiverFeatures(n, s, k)) :
        n \in 0..MaxFeatures, s \in 1..3,
        k \in {1, 2, PaletteSize, PaletteSize + 1, MaxRivers}}

FailingRivers == {Missing, Unreadable}

Files(train, val, wastewater, sheet, rivers) ==
    [p \in Paths |->
        CASE p = TRAINING_SET -> train
          [] p = VALIDATION_SET -> val
          [] p = WASTE_WATER -> wastewater
          [] p = WASTE_WATER_SHEET -> sheet
          [] OTHER -> rivers]

\* every short training table next to a small validation table
StationFiles ==
    {Files(OkFile(StationColumns, rows), SmallTable, Missing, Missing, SmallRivers) :
        rows \in SeqsUpTo(StationRows, MaxRows)}

\* every short station table, without null cells, as the only input
LoneStationFiles ==
    {Files(OkFile(StationColumns, rows), Missing, Missing, Missing, Missing) :
        rows \in SeqsUpTo(StationRows \ {Row(NaN, 0, NullDesc)}, MaxSites)}

\* app.py: a rich training table, or a rich river file, or failure combinations
AppFiles ==
    StationFiles
    \cup {Files(SmallTable, SmallTable, Missing, Missing, rivers) : rivers \in RiverFiles}
    \cup {Files(train, val, Missing, Missing, rivers) :
            train \in FailingTables \cup {SmallTable},
            val \in FailingTables \cup {SmallTable},
            rivers \in FailingRivers \cup {SmallRivers}}

\* app_wastewater.py: a rich waste-water table, or failure combinations
WWFiles ==
    {Files(SmallTable, SmallTable, OkFile(SiteColumns, rows), Missing, SmallRivers) :
        rows \in SeqsUpTo(SiteRows, MaxSites)}
    \cup {Files(train, val, wastewater, Missing, rivers) :
            train \in {Missing, SmallTable},
            val \in {Unreadable, SmallTable},
            wastewater \in FailingTables \cup {SmallSites, SmallTable},
            rivers \in FailingRivers \cup {SmallRivers}}
    \cup {Files(SmallTable, SmallTable, Missing, sheet, SmallRivers) :
            sheet \in FailingTables \cup {SmallSites}}

\* station rows along one meridian
TaggedRows == {Row(lat, 0, NullDesc) : lat \in Coords}

\* n stations at n different places, the first at latitude from
StationLine(from, n) == [j \in 1..n |-> Row(from + j - 1, 0, NullDesc)]

\* app_satelite.py: small overlapping tables, failure combinations, and
\* station files long enough for the display cap to bite
OverlapFiles ==
    {Files(OkFile(StationColumns, t), OkFile(StationColumns, v), Missing, Missing, Missing) :
        t \in SeqsUpTo(TaggedRows, MaxTagged), v \in SeqsUpTo(TaggedRows, MaxTagged)}

SatFiles ==
    OverlapFiles
    \cup {Files(train, val, Missing, Missing, Missing) :
            train \in FailingTables \cup {SmallTable},
            val \in FailingTables \cup {SmallTable}}
    \cup UNION {{Files(OkFile(StationColumns, StationLine(0, n)), val,
                         Missing, Missing, Missing) :
                      val \in {Missing, OkFile(StationColumns, StationLine(n - 1, 3))}} :
                  n \in 0..MaxStations}

(***************************************************************************)
(* Initial states: the first run of the script with the widgets' defaults  *)
(***************************************************************************)
RadiusOptions == {0, 1, 3, 5, 10, 20}

Result(run) ==
    \E r \in {run} :
        /\ m = r.m
        /\ outcome = r.outcome
        /\ errors = r.errors
        /\ river_color_map = r.river_color_map
        /\ df = r.df
        /\ display_df = r.display_df

Defaults ==
    /\ show_train = TRUE /\ show_val = TRUE
    /\ show_wastewater = TRUE /\ show_rivers = TRUE
    /\ radius_km = 0
    /\ nasa_version = "2016 Black Marble (Refined)"
    /\ show_1km = TRUE /\ show_3km = TRUE /\ show_5km = TRUE /\ show_10km = TRUE

InitApp ==
    /\ script = "app.py"
    /\ fs \in AppFiles
    /\ first_na = NullDesc
    /\ slider_raises = FALSE
    /\ Defaults
    /\ max_points = 0
    /\ Result(app_script(TRUE, TRUE, TRUE))

InitWW ==
    /\ script = "app_wastewater.py"
    /\ fs \in WWFiles
    /\ first_na \in {NullDesc, NoneName}
    /\ slider_raises = FALSE
    /\ Defaults
    /\ max_points = 0
    /\ Result(ww_script(TRUE, TRUE, TRUE, TRUE, 0))

InitSat ==
    /\ script = "app_satelite.py"
    /\ fs \in SatFiles
    /\ first_na = NullDesc
    /\ slider_raises \in (IF fs \in OverlapFiles THEN {FALSE} ELSE BOOLEAN)
    /\ Defaults
    /\ max_points = slider_value(Len(load_unique_data))
    /\ Result(sat_script("2016 Black Marble (Refined)", TRUE, TRUE, TRUE, TRUE, max_points))

\* the aggregation of app.py and of app_wastewater.py over every short table
InitAggApp ==
    /\ script = "app.py"
    /\ fs \in StationFiles
    /\ first_na = NullDesc
    /\ slider_raises = FALSE
    /\ Defaults
    /\ max_points = 0
    /\ Result(app_script(TRUE, TRUE, TRUE))

InitAggWW ==
    /\ script = "app_wastewater.py"
    /\ fs \in LoneStationFiles
    /\ first_na = NullDesc
    /\ slider_raises = FALSE
    /\ Defaults
    /\ max_points = 0
    /\ Result(ww_script(TRUE, TRUE, TRUE, TRUE, 0))

InitAgg == InitAggApp \/ InitAggWW

Init == InitApp \/ InitWW \/ InitSat \/ InitAgg

(***************************************************************************)
(* Actions: one widget interaction and the re-run it triggers              *)
(***************************************************************************)
Rerun(run) ==
    \E r \in {run} :
        /\ m' = r.m
        /\ outcome' = r.outcome
        /\ errors' = r.errors
        /\ river_color_map' = r.river_color_map
        /\ df' = r.df
        /\ display_df' = r.display_df

Environment == <<script, fs, first_na, slider_raises>>

AppOnly == <<show_wastewater, radius_km, nasa_version,
             show_1km, show_3km, show_5km, show_10km, max_points>>

\* the sidebar of app.py exists once both load_data calls have returned
AppWidgets ==
    /\ script = "app.py"
    /\ ~app_load_data(TRAINING_SET).raised
    /\ ~app_load_data(VALIDATION_SET).raised

AppToggleTrain ==
    /\ AppWidgets
    /\ show_train' = ~show_train
    /\ UNCHANGED <<Environment, AppOnly, show_val, show_rivers>>
    /\ Rerun(app_script(show_train', show_val', show_rivers'))

AppToggleVal ==
    /\ AppWidgets
    /\ show_val' = ~show_val
    /\ UNCHANGED <<Environment, AppOnly, show_train, show_rivers>>
    /\ Rerun(app_script(show_train', show_val', show_rivers'))

AppToggleRivers ==
    /\ AppWidgets
    /\ show_rivers' = ~show_rivers
    /\ UNCHANGED <<Environment, AppOnly, show_train, show_val>>
    /\ Rerun(app_script(show_train', show_val', show_rivers'))

NextApp == AppToggleTrain \/ AppToggleVal \/ AppToggleRivers

WWOnly == <<nasa_version, show_1km, show_3km, show_5km, show_10km, max_points>>

WWRerun ==
    Rerun(ww_script(show_train', show_val', show_wastewater', show_rivers', radius_km'))

WWToggleTrain ==
    /\ script = "app_wastewater.py"
    /\ show_train' = ~show_train
    /\ UNCHANGED <<Environment, WWOnly, show_val, show_wastewater, show_rivers, radius_km>>
    /\ WWRerun

WWToggleVal ==
    /\ script = "app_wastewater.py"
    /\ show_val' = ~show_val
    /\ UNCHANGED <<Environment, WWOnly, show_train, show_wastewater, show_rivers, radius_km>>
    /\ WWRerun

WWToggleWastewater ==
    /\ script = "app_wastewater.py"
    /\ show_wastewater' = ~show_wastewater
    /\ UNCHANGED <<Environment, WWOnly, show_train, show_val, show_rivers, radius_km>>
    /\ WWRerun

WWToggleRivers ==
    /\ script = "app_wastewater.py"
    /\ show_rivers' = ~show_rivers
    /\ UNCHANGED <<Environment, WWOnly, show_train, show_val, show_wastewater, radius_km>>
    /\ WWRerun

WWSelectRadius ==
    /\ script = "app_wastewater.py"
    /\ \E km \in RadiusOptions \ {radius_km} : radius_km' = km
    /\ UNCHANGED <<Environment, WWOnly, show_train, show_val, show_wastewater, show_rivers>>
    /\ WWRerun

NextWW == WWToggleTrain \/ WWToggleVal \/ WWToggleWastewater \/ WWToggleRivers
          \/ WWSelectRadius

SatOnly == <<show_train, show_val, show_wastewater, show_rivers, radius_km>>

\* the sidebar of app_satelite.py exists unless the script stopped at line 54
SatWidgets == script = "app_satelite.py" /\ df # <<>>

\* the slider exists when st.slider returned
SatSlider == SatWidgets /\ ~(SliderMin > Len(df) /\ slider_raises)

SatRerun ==
    Rerun(sat_script(nasa_version', show_1km', show_3km', show_5km', show_10km', max_points'))

SatSelectVersion ==
    /\ SatWidgets
    /\ \E v \in NasaVersions \ {nasa_version} : nasa_version' = v
    /\ UNCHANGED <<Environment, SatOnly, show_1km, show_3km, show_5km, show_10km, max_points>>
    /\ SatRerun

SatToggle1km ==
    /\ SatWidgets
    /\ show_1km' = ~show_1km
    /\ UNCHANGED <<Environment, SatOnly, nasa_version, show_3km, show_5km, show_10km, max_points>>
    /\ SatRerun

SatToggle3km ==
    /\ SatWidgets
    /\ show_3km' = ~show_3km
    /\ UNCHANGED <<Environment, SatOnly, nasa_version, show_1km, show_5km, show_10km, max_points>>
    /\ SatRerun

SatToggle5km ==
    /\ SatWidgets
    /\ show_5km' = ~show_5km
    /\ UNCHANGED <<Environment, SatOnly, nasa_version, show_1km, show_3km, show_10km, max_points>>
    /\ SatRerun

SatToggle10km ==
    /\ SatWidgets
    /\ show_10km' = ~show_10km
    /\ UNCHANGED <<Environment, SatOnly, nasa_version, show_1km, show_3km, show_5km, max_points>>
    /\ SatRerun

SatMoveSlider ==
    /\ SatSlider
    /\ \E v \in slider_values(Len(df)) \ {max_points} : max_points' = v
    /\ UNCHANGED <<Environment, SatOnly, nasa_version, show_1km, show_3km, show_5km, show_10km>>
    /\ SatRerun

NextSat == SatSelectVersion \/ SatToggle1km \/ SatToggle3km \/ SatToggle5km
           \/ SatToggle10km \/ SatMoveSlider

Next == NextApp \/ NextWW \/ NextSat

Spec == Init /\ [][Next]_vars

SpecApp == InitApp /\ [][NextApp]_vars

SpecWW == InitWW /\ [][NextWW]_vars

SpecSat == InitSat /\ [][NextSat]_vars

NextAgg == NextApp \/ NextWW

SpecAgg == InitAgg /\ [][NextAgg]_vars

(***************************************************************************)
(* Vocabulary of the properties                                            *)
(***************************************************************************)
Rendered == outcome = "rendered"

Stations == script \in {"app.py", "app_wastewater.py"}

\* the marker layers of the script being served
Layers ==
    IF script = "app.py"
    THEN {[group |-> "Training", path |-> TRAINING_SET, shown |-> show_train],
          [group |-> "Validation", path |-> VALIDATION_SET, shown |-> show_val]}
    ELSE IF script = "app_wastewater.py"
    THEN {[group |-> "Training Set", path |-> TRAINING_SET, shown |-> show_train],
          [group |-> "Validation Set", path |-> VALIDATION_SET, shown |-> show_val],
          [group |-> "Waste Water / Dam", path |-> WASTE_WATER, shown |-> show_wastewater]}
    ELSE {}

\* the rows the loader hands to the aggregation of a layer
LoadedFrame(path) ==
    IF script = "app.py" THEN app_load_data(path).df ELSE ww_load_data(path).df

LoadedRows(path) == LoadedFrame(path).rows

\* the markers of a layer, in the order they were added to the map
MarkersOf(group) ==
    SelectSeq(m, LAMBDA e : e.kind = "CircleMarker" /\ e.group = group)

RowsAt(rows, key) == {j \in DOMAIN rows : KeyOf(rows[j]) = key}

FirstRowAt(rows, key) == CHOOSE j \in RowsAt(rows, key) : \A i \in RowsAt(rows, key) : j <= i

\* one marker per distinct key of the rows, none twice
OnePerKey(markers, rows) ==
    /\ {markers[i].location : i \in DOMAIN markers} = {KeyOf(rows[j]) : j \in DOMAIN rows}
    /\ \A i, j \in DOMAIN markers : markers[i].location = markers[j].location => i = j

DrawnLayers == {l \in Layers : Rendered /\ l.shown}

(***************************************************************************)
(* C2  LocationAggregator emits one DistinctLocation per distinct          *)
(* (latitude, longitude) pair, in the order in which each pair was first   *)
(* encountered in the input.                                               *)
(***************************************************************************)
C2_FirstSeenOrder ==
    \A l \in DrawnLayers :
        LET markers == MarkersOf(l.group)
            rows == LoadedRows(l.path)
        IN /\ OnePerKey(markers, rows)
           /\ \A i, j \in DOMAIN markers :
                 i < j => FirstRowAt(rows, markers[i].location)
                            < FirstRowAt(rows, markers[j].location)

(***************************************************************************)
(* C2 as amended: one DistinctLocation per distinct pair, emitted in       *)
(* ascending order of (latitude, longitude).                               *)
(***************************************************************************)
C2_AscendingKeyOrder ==
    \A l \in DrawnLayers :
        LET markers == MarkersOf(l.group)
            rows == LoadedRows(l.path)
        IN /\ OnePerKey(markers, rows)
           /\ \A i, j \in DOMAIN markers :
                 i < j => KeyLess(markers[i].location, markers[j].location)

\* a drawn layer whose rows meet the larger key first
C2_Witness ==
    \E l \in DrawnLayers :
        LET rows == LoadedRows(l.path)
        IN /\ Len(MarkersOf(l.group)) >= 2
           /\ \E i, j \in DOMAIN rows : i < j /\ KeyLess(KeyOf(rows[j]), KeyOf(rows[i]))
                                        /\ FirstRowAt(rows, KeyOf(rows[j])) = j

(***************************************************************************)
(* C3  The count of each DistinctLocation is the number of input rows      *)
(* with its key; every count is at least 1 and the counts sum to the       *)
(* number of input rows.                                                   *)
(***************************************************************************)
C3_CountsMatchRows ==
    \A l \in DrawnLayers :
        LET markers == MarkersOf(l.group)
            rows == LoadedRows(l.path)
        IN /\ \A i \in DOMAIN markers :
                 /\ markers[i].count = Cardinality(RowsAt(rows, markers[i].location))
                 /\ markers[i].count >= 1
           /\ SumSeq([i \in DOMAIN markers |-> markers[i].count]) = Len(rows)

\* a drawn layer with several locations, one of them sampled more than once
C3_Witness ==
    \E l \in DrawnLayers :
        LET markers == MarkersOf(l.group)
        IN /\ Len(markers) >= 2
           /\ \E i \in DOMAIN markers : markers[i].count >= 2

(***************************************************************************)
(* C1  Whatever subset of the input datasets fails to load, the render     *)
(* cycle runs to completion and draws the enabled layer of every dataset   *)
(* that did load.                                                          *)
(***************************************************************************)
\* the file a table is read from: the sheet export stands in for a missing
\* waste-water workbook
DataFile(path) ==
    IF path = WASTE_WATER /\ fs[path].state = "missing" THEN fs[WASTE_WATER_SHEET]
    ELSE fs[path]

\* a readable table with both coordinate columns and a row that has both
ValidTable(file) ==
    /\ file.state = "ok"
    /\ HasCoords(file.columns)
    /\ \E j \in DOMAIN file.rows : NotNullCoords(file.rows[j])

C1_FailureIsolation ==
    Stations =>
        /\ Rendered
        /\ \A l \in Layers :
              l.shown /\ ValidTable(DataFile(l.path)) => MarkersOf(l.group) # <<>>
        /\ show_rivers /\ fs[RIVERS].state = "ok" =>
              \E i \in DOMAIN m : m[i].kind = "GeoJson"

(***************************************************************************)
(* C4  The i-th distinct river identifier, counted from 0 in first-seen    *)
(* order, receives palette entry i mod 20; the mapping is total over the   *)
(* distinct identifiers, and identifiers whose first-seen positions differ *)
(* by a multiple of 20 share a colour.                                     *)
(***************************************************************************)
RiverIds == [j \in DOMAIN fs[RIVERS].rows |-> fs[RIVERS].rows[j].MAIN_RIV]

FirstAt(ids, x) == CHOOSE j \in DOMAIN ids : ids[j] = x /\ \A i \in 1..(j - 1) : ids[i] # x

\* how many distinct identifiers come before the first occurrence of x
FirstSeenIndex(ids, x) == Cardinality({ids[i] : i \in 1..(FirstAt(ids, x) - 1)})

RiversDrawn == Stations /\ Rendered /\ show_rivers /\ fs[RIVERS].state = "ok"

C4_PaletteCycle ==
    RiversDrawn =>
        LET ids == RiverIds
            distinct == {ids[j] : j \in DOMAIN ids}
        IN /\ DOMAIN river_color_map = distinct
           /\ \A x \in distinct :
                 river_color_map[x] = tab20[(FirstSeenIndex(ids, x) % 20) + 1]
           /\ \A x, y \in distinct :
                 (FirstSeenIndex(ids, x) - FirstSeenIndex(ids, y)) % 20 = 0
                    => river_color_map[x] = river_color_map[y]
           /\ \E i \in DOMAIN m :
                 /\ m[i].kind = "GeoJson"
                 /\ m[i].colors = [j \in DOMAIN ids |-> river_color_map[ids[j]]]

\* more identifiers than colours, some identifier repeated, and the
\* identifiers not met in ascending order
C4_Witness ==
    /\ RiversDrawn
    /\ Cardinality(DOMAIN river_color_map) > PaletteSize
    /\ Len(RiverIds) > Cardinality(DOMAIN river_color_map)
    /\ \E j \in DOMAIN RiverIds : j > 1 /\ RiverIds[j] < RiverIds[j - 1]
                                  /\ FirstAt(RiverIds, RiverIds[j]) = j

(***************************************************************************)
(* C10  With a description field configured and present, the label of a    *)
(* DistinctLocation is the description of the first row, in original row   *)
(* order, that has the location's key, null or not; without a description  *)
(* field the label is absent and the marker shows the group label.         *)
(***************************************************************************)
IsNull(v) == v \in {NullDesc, NoneName}

SameLabel(a, b) == a = b \/ (IsNull(a) /\ IsNull(b))

\* the waste-water layer is the one layer with desc_col configured
Described(l) == l.path = WASTE_WATER /\ "Description" \in LoadedFrame(l.path).columns

UndescribedLabels ==
    \A l \in DrawnLayers :
        ~Described(l) =>
            \A i \in DOMAIN MarkersOf(l.group) :
                /\ IsNull(MarkersOf(l.group)[i].label)
                /\ MarkersOf(l.group)[i].name = l.group

WWDrawn == script = "app_wastewater.py" /\ Rendered

C10_FirstRowLabel ==
    WWDrawn =>
        /\ \A l \in DrawnLayers :
              Described(l) =>
                  LET markers == MarkersOf(l.group)
                      rows == LoadedRows(l.path)
                  IN \A i \in DOMAIN markers :
                        SameLabel(markers[i].label,
                                  rows[FirstRowAt(rows, markers[i].location)].Description)
        /\ UndescribedLabels

(***************************************************************************)
(* C10 as amended: the label is the description of the first row, in       *)
(* original row order, that has the location's key and a non-null          *)
(* description, and is null when the key has no such row; without a        *)
(* description field the label is absent and the marker shows the group    *)
(* label.                                                                  *)
(***************************************************************************)
DescribedRowsAt(rows, key) == {j \in RowsAt(rows, key) : rows[j].Description # NullDesc}

C10_FirstNonNullLabel ==
    WWDrawn =>
        /\ \A l \in DrawnLayers :
              Described(l) =>
                  LET markers == MarkersOf(l.group)
                      rows == LoadedRows(l.path)
                  IN \A i \in DOMAIN markers :
                        LET described == DescribedRowsAt(rows, markers[i].location)
                        IN IF described = {} THEN IsNull(markers[i].label)
                           ELSE \E j \in described :
                                   /\ \A k \in described : j <= k
                                   /\ markers[i].label = rows[j].Description
        /\ UndescribedLabels

\* a described site whose first row has no description while a later one has,
\* next to an undescribed layer
C10_Witness ==
    /\ WWDrawn
    /\ \E l \in DrawnLayers :
          /\ Described(l)
          /\ \E i \in DOMAIN MarkersOf(l.group) :
                LET rows == LoadedRows(l.path)
                    key == MarkersOf(l.group)[i].location
                IN /\ rows[FirstRowAt(rows, key)].Description = NullDesc
                   /\ DescribedRowsAt(rows, key) # {}
    /\ \E l \in DrawnLayers : ~Described(l) /\ MarkersOf(l.group) # <<>>

(***************************************************************************)
(* C5  BoundedSampler returns exactly min(M, k) of the M distinct          *)
(* locations; the input itself when M <= k, and k locations drawn without  *)
(* replacement when M > k.                                                 *)
(***************************************************************************)
SatDrawn == script = "app_satelite.py" /\ Rendered

C5_SampleSize ==
    SatDrawn =>
        /\ Len(display_df) = Min(Len(df), max_points)
        /\ Len(df) <= max_points => display_df = df
        /\ Len(df) > max_points =>
              /\ \A i \in DOMAIN display_df : \E j \in DOMAIN df : display_df[i] = df[j]
              /\ \A i, j \in DOMAIN display_df : display_df[i] = display_df[j] => i = j

\* the cap bites: more locations than the slider allows
C5_Witness == SatDrawn /\ Len(df) > max_points /\ Len(display_df) = max_points

\* the cap is met exactly and nothing is sampled
C5_WitnessAtCap == SatDrawn /\ Len(df) = max_points /\ Len(df) >= SliderMin

Accepted(path) ==
    IF fs[path].state = "ok" /\ HasCoords(fs[path].columns) THEN fs[path].rows ELSE <<>>

KeysOf(rows) == {KeyOf(rows[j]) : j \in DOMAIN rows}

FirstSource(key) ==
    IF key \in KeysOf(Accepted(TRAINING_SET)) THEN "Training Set" ELSE "Validation Set"

OneLocationPerKey ==
    /\ KeysOf(df) = KeysOf(Accepted(TRAINING_SET)) \cup KeysOf(Accepted(VALIDATION_SET))
    /\ \A i, j \in DOMAIN df : KeyOf(df[i]) = KeyOf(df[j]) => i = j
    /\ \A i \in DOMAIN df : df[i].Source = FirstSource(KeyOf(df[i]))

C7_GlobalDedupWithCount ==
    script = "app_satelite.py" =>
        /\ OneLocationPerKey
        /\ \A i \in DOMAIN df :
              /\ "Count" \in DOMAIN df[i]
              /\ df[i].Count = Cardinality(RowsAt(Accepted(TRAINING_SET), KeyOf(df[i])))
                               + Cardinality(RowsAt(Accepted(VALIDATION_SET), KeyOf(df[i])))

(***************************************************************************)
(* C7 as amended: a coordinate pair present in several datasets yields one *)
(* DistinctLocation whose source is the tag of the dataset with the first  *)
(* occurrence; the location carries latitude, longitude and source, and no *)
(* count.                                                                  *)
(***************************************************************************)
C7_GlobalDedupFirstSource ==
    script = "app_satelite.py" =>
        /\ OneLocationPerKey
        /\ \A i \in DOMAIN df : DOMAIN df[i] = {"Latitude", "Longitude", "Source"}

\* a pair present in both datasets, behind a pair only the validation set has
C7_Witness ==
    /\ script = "app_satelite.py"
    /\ \E k \in KeysOf(Accepted(TRAINING_SET)) \cap KeysOf(Accepted(VALIDATION_SET)) :
          \E i \in DOMAIN df : KeyOf(df[i]) = k /\ df[i].Source = "Training Set"
    /\ \E i \in DOMAIN df : df[i].Source = "Validation Set"

(***************************************************************************)
(* C8  A table without the Latitude or the Longitude column is reported to *)
(* the caller as a MissingField condition, never returned as an empty      *)
(* result.                                                                 *)
(***************************************************************************)
\* the header as the script reads it: app_wastewater.py strips the names
HeaderOf(path) ==
    IF script = "app_wastewater.py" THEN {Strip(c) : c \in DataFile(path).columns}
    ELSE fs[path].columns

InputTables ==
    IF script = "app_wastewater.py" THEN {TRAINING_SET, VALIDATION_SET, WASTE_WATER}
    ELSE IF script = "app_satelite.py" THEN {TRAINING_SET, VALIDATION_SET}
    ELSE {}

LacksCoords(path) ==
    /\ (IF script = "app_wastewater.py" THEN DataFile(path) ELSE fs[path]).state = "ok"
    /\ ~HasCoords(HeaderOf(path))

C8_MissingFieldReported ==
    (\E path \in InputTables : LacksCoords(path)) =>
        \E i \in DOMAIN errors : errors[i] = "MissingField"

(***************************************************************************)
(* C9  The cap handed to BoundedSampler satisfies 10 <= k <= M for every   *)
(* total M >= 1; otherwise the request is rejected.                        *)
(***************************************************************************)
C9_CapWithinRange ==
    script = "app_satelite.py" /\ Len(df) >= 1 =>
        \/ outcome = "exception"
        \/ (Rendered /\ 10 <= max_points /\ max_points <= Len(df))

=============================================================================
